---- MODULE Spec2Model ----
(***************************************************************************)
(* A model of gruvi's HTTP connection controller, HttpProtocol in          *)
(* lib/gruvi/http.py.  Spec is the client side: the parser callbacks, the  *)
(* protocol callbacks data_received() and connection_lost(), and the API   *)
(* calls request() and getresponse().  SpecServer is the server side with  *)
(* its WsgiHandler, SpecRequest the client's HttpRequest writer,           *)
(* SpecWriters either of the two, SpecClosing a client that writes to an   *)
(* open HttpRequest while the connection fails, and SpecParser the header  *)
(* accumulators under the events of the parser.                            *)
(*                                                                         *)
(* The C parser (http_parser_execute) and the Queue / Stream classes are   *)
(* not part of http.py.  The parser is modelled as a recogniser of tokens  *)
(* (pieces of the wire data) that invokes the callbacks of http.py; the    *)
(* queue is a FIFO; a body stream is a record of its eof and error flags.  *)
(***************************************************************************)
EXTENDS Integers, Sequences, FiniteSets, TLC

\* ------------------------------------------------------------------ bounds
\* Number of request() calls made by the application in one behaviour.
MaxRequests == 2
\* Number of messages the peer starts on the connection in one behaviour.
MaxMsgs == 2
\* Number of tokens carried by one data_received() call.
MaxTokens == 3

\* ------------------------------------------------------- program constants
\* HttpProtocol.max_header_size (65536 in the source), scaled down: every
\* header token of the model is one byte long.
max_header_size == 4
\* HttpProtocol.max_pipeline_size (10 in the source), scaled down.
max_pipeline_size == 1

Methods == {"GET", "HEAD"}
Versions == {"1.0", "1.1"}

\* Application headers handed to request(): none, or one hop-by-hop header.
AppHeaders == {"none", "hop"}
\* Body argument of request(): b'' (the default), an iterable yielding one
\* non-empty fragment, or an object of an unsupported type.
Bodies == {"empty", "iter", "other"}

\* Exceptions handed to connection_lost(): None (clean close) or an error.
LostExcs == {"None", "ConnError"}

\* Pieces of wire data as the parser sees them:
\*   MSG     a complete response without headers and without body
\*   SL      a status line
\*   HF, HV  one byte of a header field / of a header value
\*   EH_none the blank line ending the header of a body-less response
\*   EH_body the blank line ending the header of a response whose body is
\*           length-delimited or chunked
\*   EH_eof  the blank line ending the header of a response whose body
\*           runs until the connection closes
\*   BD      body bytes that do not end the body
\*   EB      the bytes that end the body
\*   XX      bytes that are not valid where they arrive
Tokens == {"MSG", "SL", "HF", "HV", "EH_none", "EH_body", "EH_eof", "BD", "EB", "XX"}

VARIABLES
    version,      \* HttpProtocol._version
    transport,    \* HttpProtocol._transport: "None" or "set"
    tclosed,      \* transport.close() has been called
    paused,       \* transport.pause_reading() is in effect
    lost,         \* the transport has reported connection_lost()
    requests,     \* HttpProtocol._requests: the outstanding-request log
    queue,        \* MessageProtocol._queue: the pipeline queue
    error,        \* HttpProtocol._error: the last-error slot
    response,     \* HttpProtocol._response: id of the message, 0 for None
    message,      \* HttpProtocol._message: id of the message, 0 for None
    header_size,  \* HttpProtocol._header_size
    body,         \* HttpMessage.body of every message, by message id
    pstate,       \* state of the C parser
    waiting,      \* a getresponse() call is suspended in Queue.get()
    written,      \* the blocks handed to HttpProtocol._writer.write()
    last,         \* outcome of the latest API call of the application
    delivered,    \* number of messages dequeued by getresponse()
    nreq,         \* number of request() calls made
    told,         \* per message: the value on_headers_complete() returned
                  \* and whether its request had been written by then
    detected,     \* data_received() has detected a parse error
    tooLarge,     \* a header callback has rejected an oversize header
    server_side,  \* HttpProtocol._server_side
    server_name,  \* HttpProtocol._server_name ("None": not set)
    minfo,        \* server: version and should_keep_alive of every request
    wsgi,         \* server: the fields of the WsgiHandler
    hreq,         \* client: the fields of the latest HttpRequest
    wire,         \* what was done on the writer for the message (request
                  \* or response) being written, in order
    order,        \* server: the response of every block ever handed to
                  \* the writer
    hacc          \* the header accumulators and the message they fill

\* The variables of the writers (HttpRequest, WsgiHandler) and of the
\* header accumulators.
srv == <<server_side, server_name, minfo, wsgi, hreq, wire, order, hacc>>

vars == <<version, transport, tclosed, paused, lost, requests, queue, error,
          response, message, header_size, body, pstate, waiting, written, last,
          delivered, nreq, told, detected, tooLarge, srv>>

\* ------------------------------------------------------------ data model
\* HttpMessage.body: None until headers-complete, then a Stream whose
\* buffer carries an eof flag and an error.
NoBody == [exists |-> FALSE, eof |-> FALSE, err |-> "None"]
NewStream == [exists |-> TRUE, eof |-> FALSE, err |-> "None"]

\* Queue entries: a parsed message, an Exception, or None.
MsgEntry(id) == [kind |-> "msg", id |-> id, err |-> "None"]
ExcEntry(e) == IF e = "None" THEN [kind |-> "none", id |-> 0, err |-> "None"]
               ELSE [kind |-> "exc", id |-> 0, err |-> e]

\* What the parser was told at headers-complete of a message: ret, and
\* whether the request that the message answers was on the wire.
Told(ret, answers) == [ret |-> ret, answers |-> answers]

\* Outcome of an API call.
Outcome(op, kind, id, err) == [op |-> op, kind |-> kind, id |-> id, err |-> err]

\* A header name: its letters in lower case, and whether it is written with
\* capitals.
Name(base, caps) == [base |-> base, caps |-> caps]
\* A lower() that leaves the name as it is.
lowerKeepsCase(name) == name

\* str.lower() of a header name.
lower(name) == [name EXCEPT !.caps = FALSE]
\* The hop-by-hop header names.
hop_by_hop ==
    {Name(b, FALSE) : b \in {"connection", "keep-alive", "proxy-authenticate",
                             "proxy-authorization", "te", "trailers",
                             "transfer-encoding", "upgrade"}}
\* No header.
NoHeader == Name("none", FALSE)
\* The header that the application supplies besides Content-Length: none,
\* one whose name is hop-by-hop, with or without capitals, or another one.
AppHeader ==
    {NoHeader, Name("x-app", FALSE)}
        \cup {Name(n.base, c) : n \in hop_by_hop, c \in BOOLEAN}

\* WsgiHandler.__init__(): no message, no status, an empty environ.  pc is
\* the position of the handler: "idle" between calls, "body" while it
\* iterates the result of the application, "raised" after a call that
\* ended with an exception; nchunks counts the items of the result handed
\* to write(), ndata those that were not empty, and called says that the
\* application called start_response() in the current call, supplied
\* that it put trailers in the environ in the current call.
WsgiHandlerInit ==
    [pc |-> "idle", message |-> 0, status |-> FALSE, clen |-> "None",
     headers_sent |-> FALSE, chunked |-> FALSE, keepalive |-> FALSE,
     app |-> NoHeader, environ |-> FALSE, trailers |-> FALSE, nchunks |-> 0,
     ndata |-> 0, raised |-> "None", called |-> FALSE,
     supplied |-> FALSE]

\* HttpRequest.__init__(): not chunked, no content length (-1 stands for
\* None), nothing written.  id is the number of the request() call that
\* made the object (0: none yet), open says that the application holds the
\* object to write the body itself; hdr, body and frags are the header and
\* the body that the application passed, ctype its Content-Type header,
\* and nwrites counts its write()
\* calls, and names the Host and User-Agent headers of the header block
\* written.
HttpRequestInit ==
    [id |-> 0, open |-> FALSE, chunked |-> FALSE, content_length |-> -1,
     bytes_written |-> 0, charset |-> "ISO-8859-1", nwrites |-> 0,
     hdr |-> NoHeader, body |-> "b''", frags |-> <<>>, names |-> <<>>,
     ctype |-> "none"]

\* The header accumulators after construction: _header_field and
\* _header_value are empty, and there is no message.  headers, trailers,
\* body and eof are those of the current message; seen is what
\* message.trailers held when the body stream was fed the EOF, lines the
\* header lines that the parser has reported for the message, and pos the
\* position of the parser in the message; url is HttpProtocol._url.
AccInit ==
    [url |-> <<>>, field |-> <<>>, value |-> <<>>, headers |-> <<>>,
     trailers |-> <<>>, body |-> FALSE, eof |-> FALSE, seen |-> <<>>,
     lines |-> <<>>, pos |-> "none"]

\* The methods of the request header blocks handed to the writer, in order.
IsMethod(x) == x \in Methods
sent == SelectSeq(written, IsMethod)

Init ==
    /\ version \in Versions
    /\ transport = "None"
    /\ tclosed = FALSE
    /\ paused = FALSE
    /\ lost = FALSE
    /\ requests = <<>>
    /\ queue = <<>>
    /\ error = "None"
    /\ response = 0
    /\ message = 0
    /\ header_size = 0
    /\ body = [i \in 1..MaxMsgs |-> NoBody]
    /\ pstate = "start"
    /\ waiting = FALSE
    /\ written = <<>>
    /\ last = Outcome("none", "none", 0, "None")
    /\ delivered = 0
    /\ nreq = 0
    /\ told = <<>>
    /\ detected = FALSE
    /\ tooLarge = FALSE
    /\ server_side = FALSE
    /\ server_name = "None"
    /\ minfo = <<>>
    /\ wsgi = WsgiHandlerInit
    /\ hreq = HttpRequestInit
    /\ wire = <<>>
    /\ order = <<>>
    /\ hacc = AccInit

\* connection_made(): the transport and the writer are set.
ConnectionMade ==
    /\ transport = "None"
    /\ ~lost
    /\ transport' = "set"
    /\ UNCHANGED <<srv, version, tclosed, paused, lost, requests, queue, error,
                   response, message, header_size, body, pstate, waiting,
                   written, last, delivered, nreq, told, detected, tooLarge>>

\* ------------------------------------------------------- parser callbacks
\* The fields of the controller that the parser callbacks and the protocol
\* callbacks read and write, as one record; ret is the value a callback
\* returns to the parser, perr says that http_parser_execute() stopped on
\* an error (it consumed fewer bytes than it was given).
Ctl ==
    [transport |-> transport, tclosed |-> tclosed, paused |-> paused,
     requests |-> requests, queue |-> queue, error |-> error,
     message |-> message, header_size |-> header_size, body |-> body,
     pstate |-> pstate, told |-> told, detected |-> detected,
     tooLarge |-> tooLarge, nsent |-> Len(sent), ret |-> 0, perr |-> FALSE]

\* on_message_begin that keeps the header-size counter.
on_message_begin_NoReset(c) ==
    [c EXCEPT !.message = c.message + 1, !.ret = 0]

\* on_message_begin: a fresh HttpMessage, the header-size counter reset.
on_message_begin(c) ==
    [c EXCEPT !.message = c.message + 1, !.header_size = 0, !.ret = 0]

\* on_url: count the bytes, reject when over max_header_size.
on_url(c, length) ==
    LET size == c.header_size + length IN
    IF size > max_header_size
    THEN [c EXCEPT !.header_size = size, !.error = "HeaderTooLarge",
                   !.tooLarge = TRUE, !.ret = 1]
    ELSE [c EXCEPT !.header_size = size, !.ret = 0]

\* on_header_field: count the bytes, reject when over max_header_size.
on_header_field(c, length) ==
    LET size == c.header_size + length IN
    IF size > max_header_size
    THEN [c EXCEPT !.header_size = size, !.error = "HeaderTooLarge",
                   !.tooLarge = TRUE, !.ret = 1]
    ELSE [c EXCEPT !.header_size = size, !.ret = 0]

\* on_header_value: count the bytes, reject when over max_header_size.
on_header_value(c, length) ==
    LET size == c.header_size + length IN
    IF size > max_header_size
    THEN [c EXCEPT !.header_size = size, !.error = "HeaderTooLarge",
                   !.tooLarge = TRUE, !.ret = 1]
    ELSE [c EXCEPT !.header_size = size, !.ret = 0]

\* The current message answers the request of its rank: that request is on
\* the wire, and so it was for every message before it (a peer that sends a
\* response nobody asked for breaks the pairing from there on).
Answers(c) ==
    /\ c.message <= c.nsent
    /\ c.told = <<>> \/ c.told[Len(c.told)].answers

\* on_headers_complete() without the put on the queue.
on_headers_complete_NoPut(c) ==
    LET m == c.message
        c1 == [c EXCEPT !.body[m] = NewStream]
    IN  IF c1.requests = <<>>
        THEN [c1 EXCEPT !.ret = 0, !.told = Append(c.told, Told(0, Answers(c)))]
        ELSE LET r == IF Head(c1.requests) = "HEAD" THEN 1 ELSE 0
             IN  [c1 EXCEPT !.requests = Tail(c1.requests), !.ret = r,
                            !.told = Append(c.told, Told(r, Answers(c)))]

\* on_headers_complete (client side): attach a body stream, put the message
\* on the queue, and pop the outstanding-request log to tell the parser
\* whether a body follows (1: no body, the request was a HEAD).
on_headers_complete(c) ==
    LET m == c.message
        c1 == [c EXCEPT !.body[m] = NewStream,
                        !.queue = Append(c.queue, MsgEntry(m))]
    IN  IF c1.requests = <<>>
        THEN [c1 EXCEPT !.ret = 0, !.told = Append(c.told, Told(0, Answers(c)))]
        ELSE LET r == IF Head(c1.requests) = "HEAD" THEN 1 ELSE 0
             IN  [c1 EXCEPT !.requests = Tail(c1.requests), !.ret = r,
                            !.told = Append(c.told, Told(r, Answers(c)))]

\* on_body: feed the bytes to the body stream (the bytes are not modelled).
on_body(c) == [c EXCEPT !.ret = 0]

\* on_message_complete: feed EOF to the body stream; pause the transport
\* when the queue has reached max_pipeline_size.
on_message_complete(c) ==
    LET c1 == [c EXCEPT !.body[c.message].eof = TRUE, !.ret = 0]
    IN  IF Len(c1.queue) >= max_pipeline_size
        THEN [c1 EXCEPT !.paused = TRUE]
        ELSE c1

\* ------------------------------------------------------------ the parser
\* Parser states: start (between messages), hstart (after the status line),
\* field / value (inside a header field / value), body (a length-delimited
\* or chunked body), body_eof (a body that runs until close), dead.
ParseFail(c) == [c EXCEPT !.pstate = "dead", !.perr = TRUE]

\* After a header data callback: a non-zero return stops the parser.
AfterData(c, next) ==
    IF c.ret # 0 THEN ParseFail(c) ELSE [c EXCEPT !.pstate = next]

\* The end of the header block: headers-complete, then either the message
\* is complete at once (no body, or the callback said to skip the body) or
\* the parser goes on to read the body.
AfterHeaders(c, tok) ==
    LET h == on_headers_complete(c) IN
    IF h.ret = 1 \/ tok = "EH_none"
    THEN [on_message_complete(h) EXCEPT !.pstate = "start"]
    ELSE [h EXCEPT !.pstate = IF tok = "EH_body" THEN "body" ELSE "body_eof"]

\* One token through http_parser_execute().
Parse(c, tok) ==
    CASE c.pstate = "start" /\ tok = "SL" ->
            [on_message_begin(c) EXCEPT !.pstate = "hstart"]
      [] c.pstate = "start" /\ tok = "MSG" ->
            AfterHeaders(on_message_begin(c), "EH_none")
      [] c.pstate \in {"hstart", "field", "value"} /\ tok = "HF" ->
            AfterData(on_header_field(c, 1), "field")
      [] c.pstate \in {"field", "value"} /\ tok = "HV" ->
            AfterData(on_header_value(c, 1), "value")
      [] c.pstate \in {"hstart", "value"} /\ tok \in {"EH_none", "EH_body", "EH_eof"} ->
            AfterHeaders(c, tok)
      [] c.pstate \in {"body", "body_eof"} /\ tok = "BD" ->
            on_body(c)
      [] c.pstate = "body" /\ tok = "EB" ->
            [on_message_complete(on_body(c)) EXCEPT !.pstate = "start"]
      [] OTHER -> ParseFail(c)

\* The tokens the parser accepts in its state (a new message only while
\* the bound on messages allows one).
Accepted(c) ==
    CASE c.pstate = "start" -> IF c.message < MaxMsgs THEN {"SL", "MSG"} ELSE {}
      [] c.pstate = "hstart" -> {"HF", "EH_none", "EH_body", "EH_eof"}
      [] c.pstate = "field" -> {"HF", "HV"}
      [] c.pstate = "value" -> {"HF", "HV", "EH_none", "EH_body", "EH_eof"}
      [] c.pstate = "body" -> {"BD", "EB"}
      [] c.pstate = "body_eof" -> {"BD"}
      [] OTHER -> {}

\* The tokens the peer may send next: an accepted one, or invalid bytes
\* (no bytes are invalid inside a body that runs until close).
Offer(c) == Accepted(c) \cup (IF c.pstate = "body_eof" THEN {} ELSE {"XX"})

\* The controller after http_parser_execute() has consumed up to n more
\* tokens of one data chunk; it stops at the first error.
RECURSIVE Runs(_, _)
Runs(c, n) ==
    IF n = 0 \/ c.perr THEN {c}
    ELSE {c} \cup UNION {Runs(Parse(c, t), n - 1) : t \in Offer(c)}

\* http_parser_execute() on one data chunk of 1..MaxTokens tokens.
Executions(c) == UNION {Runs(Parse(c, t), MaxTokens - 1) : t \in Offer(c)}

\* ----------------------------------------------------- protocol callbacks
\* Stream.buffer.feed_error() on the body of message m.
FeedError(b, m, e) == [b EXCEPT ![m].err = e]

\* data_received() after http_parser_execute() has returned c.  When the
\* parser stopped on an error: store the error, feed it to the body of the
\* current message, put it on the queue and close the transport.
\* self._message.body is None until headers-complete, so the feed raises
\* AttributeError there and the callback ends before the put and the close.
data_received(c) ==
    IF ~c.perr THEN c
    ELSE LET c1 == [c EXCEPT !.error = "ParseError", !.detected = TRUE] IN
         IF c1.message # 0 /\ ~c1.body[c1.message].exists
         THEN c1
         ELSE [c1 EXCEPT
                 !.body = IF c1.message # 0
                          THEN FeedError(c1.body, c1.message, "ParseError")
                          ELSE c1.body,
                 !.queue = Append(c1.queue, ExcEntry("ParseError")),
                 !.tclosed = TRUE]

\* The controller fields take the values of record c.
Install(c) ==
    /\ transport' = c.transport
    /\ tclosed' = c.tclosed
    /\ paused' = c.paused
    /\ requests' = c.requests
    /\ queue' = c.queue
    /\ error' = c.error
    /\ message' = c.message
    /\ header_size' = c.header_size
    /\ body' = c.body
    /\ pstate' = c.pstate
    /\ told' = c.told
    /\ detected' = c.detected
    /\ tooLarge' = c.tooLarge

\* The transport delivers one chunk of data.
DataReceived ==
    /\ transport = "set"
    /\ ~lost
    /\ ~tclosed
    /\ ~paused
    /\ \E r \in Executions(Ctl) : Install(data_received(r))
    /\ UNCHANGED <<srv, version, lost, response, waiting, written, last,
                   delivered, nreq>>

\* connection_lost(exc).  The EOF is fed to the parser: a body that runs
\* until close is completed, a message cut short is a parse error (which
\* stands in for exc when the close was clean) that is fed to the body of
\* the current message.  Then the error slot takes exc, the transport is
\* dropped and, on a client, exc is put on the queue.  As in
\* data_received(), the feed raises AttributeError while the current
\* message has no body yet, and the callback ends there.
connection_lost(c, exc) ==
    LET p == IF c.pstate = "body_eof" THEN on_message_complete(c)
             ELSE IF c.pstate \in {"start", "dead"} THEN c
             ELSE ParseFail(c)
        e == IF p.perr /\ exc = "None" THEN "EofError" ELSE exc
    IN  IF p.perr /\ p.message # 0 /\ ~p.body[p.message].exists
        THEN p
        ELSE [p EXCEPT
                !.body = IF p.perr /\ p.message # 0
                         THEN FeedError(p.body, p.message, e)
                         ELSE p.body,
                !.error = e,
                !.transport = "None",
                !.queue = Append(p.queue, ExcEntry(e))]

\* The transport reports that the connection is gone.
ConnectionLost ==
    /\ transport = "set"
    /\ ~lost
    /\ lost' = TRUE
    /\ \E exc \in LostExcs : Install(connection_lost(Ctl, exc))
    /\ UNCHANGED <<srv, version, response, waiting, written, last, delivered, nreq>>

\* ---------------------------------------------------------- the client API
\* HttpRequest.start_request(): the exception it raises before anything is
\* written, "None" when it writes the header block.
start_request(hdrs, b) ==
    IF hdrs = "hop" THEN "ValueError: hop-by-hop"
    ELSE IF b = "other" THEN "TypeError"
    ELSE IF b = "iter" /\ version = "1.0" THEN "ValueError: length"
    ELSE "None"

\* The blocks request() hands to the writer after the header block:
\* nothing for b'', a chunk and the chunked terminator for the iterable.
BodyBlocks(b) ==
    IF b = "iter" THEN <<"chunk", "end">> ELSE <<>>

\* A guard of request() that does not look at the transport.
RequestGuardNoTransport ==
    IF error # "None" THEN error ELSE "None"

\* What the guard at the top of request() raises ("None": nothing).
RequestGuard ==
    IF error # "None" THEN error
    ELSE IF transport = "None" THEN "NotConnected"
    ELSE "None"

\* request(method, url, headers, body): the outstanding-request log, the
\* blocks written and the exception raised.
request(method, hdrs, b) ==
    IF RequestGuard # "None"
    THEN [requests |-> requests, written |-> written, raised |-> RequestGuard]
    ELSE LET log == Append(requests, method)
             e == start_request(hdrs, b)
         IN  IF e # "None"
             THEN [requests |-> log, written |-> written, raised |-> e]
             ELSE [requests |-> log,
                   written |-> written \o <<method>> \o BodyBlocks(b),
                   raised |-> "None"]

\* The application calls request().
Request ==
    /\ ~waiting
    /\ nreq < MaxRequests
    /\ nreq' = nreq + 1
    /\ \E method \in Methods, hdrs \in AppHeaders, b \in Bodies :
         LET r == request(method, hdrs, b) IN
         /\ requests' = r.requests
         /\ written' = r.written
         /\ last' = IF r.raised = "None"
                    THEN Outcome("request", "return", 0, "None")
                    ELSE Outcome("request", "raise", 0, r.raised)
    /\ UNCHANGED <<srv, version, transport, tclosed, paused, lost, queue, error,
                   response, message, header_size, body, pstate, waiting,
                   delivered, told, detected, tooLarge>>

\* getresponse() without the check of the previous response's body.
GetResponseGuardNoBodyCheck ==
    IF error # "None" THEN error
    ELSE IF transport = "None" THEN "NotConnected"
    ELSE IF requests = <<>> /\ queue = <<>> THEN "NoOutstanding"
    ELSE "None"

\* What getresponse() raises before it turns to the queue ("None": nothing).
GetResponseGuard ==
    IF error # "None" THEN error
    ELSE IF transport = "None" THEN "NotConnected"
    ELSE IF requests = <<>> /\ queue = <<>> THEN "NoOutstanding"
    ELSE IF response # 0 /\ ~body[response].eof THEN "BodyNotRead"
    ELSE "None"

\* getresponse() wrapping the previous response instead of the entry.
WrappedStale(entry) == response

\* The message that getresponse() wraps in the HttpResponse it returns for
\* the queue entry it got.
Wrapped(entry) == entry.id

\* The end of getresponse(): the entry taken from the head of the queue is
\* raised when it is an Exception and becomes the current response
\* otherwise.
Dequeue ==
    LET entry == Head(queue) IN
    /\ queue' = Tail(queue)
    /\ waiting' = FALSE
    /\ IF entry.kind = "exc"
       THEN /\ last' = Outcome("getresponse", "raise", 0, entry.err)
            /\ UNCHANGED <<response, delivered>>
       ELSE /\ response' = entry.id
            /\ delivered' = IF entry.kind = "msg" THEN delivered + 1 ELSE delivered
            /\ last' = Outcome("getresponse", "return", Wrapped(entry), "None")

\* getresponse() that drops the current response before it waits.
GetResponseForgets ==
    /\ ~waiting
    /\ IF GetResponseGuard # "None"
       THEN /\ last' = Outcome("getresponse", "raise", 0, GetResponseGuard)
            /\ UNCHANGED <<queue, waiting, response, delivered>>
       ELSE IF queue = <<>>
       THEN /\ waiting' = TRUE
            /\ response' = 0
            /\ last' = Outcome("getresponse", "wait", 0, "None")
            /\ UNCHANGED <<queue, delivered>>
       ELSE Dequeue
    /\ UNCHANGED <<srv, version, transport, tclosed, paused, lost, requests, error,
                   message, header_size, body, pstate, written, nreq, told,
                   detected, tooLarge>>

\* The application calls getresponse(): it raises, or takes the head of
\* the queue, or is suspended on the empty queue.
GetResponse ==
    /\ ~waiting
    /\ IF GetResponseGuard # "None"
       THEN /\ last' = Outcome("getresponse", "raise", 0, GetResponseGuard)
            /\ UNCHANGED <<queue, waiting, response, delivered>>
       ELSE IF queue = <<>>
       THEN /\ waiting' = TRUE
            /\ last' = Outcome("getresponse", "wait", 0, "None")
            /\ UNCHANGED <<queue, response, delivered>>
       ELSE Dequeue
    /\ UNCHANGED <<srv, version, transport, tclosed, paused, lost, requests, error,
                   message, header_size, body, pstate, written, nreq, told,
                   detected, tooLarge>>

\* A suspended getresponse() is resumed with the entry put on the queue.
GetResponseResume ==
    /\ waiting
    /\ queue # <<>>
    /\ Dequeue
    /\ UNCHANGED <<srv, version, transport, tclosed, paused, lost, requests, error,
                   message, header_size, body, pstate, written, nreq, told,
                   detected, tooLarge>>

\* The queue wait of a suspended getresponse() times out.
GetResponseTimeout ==
    /\ waiting
    /\ queue = <<>>
    /\ waiting' = FALSE
    /\ last' = Outcome("getresponse", "raise", 0, "Timeout")
    /\ UNCHANGED <<srv, version, transport, tclosed, paused, lost, requests, queue,
                   error, response, message, header_size, body, pstate, written,
                   delivered, nreq, told, detected, tooLarge>>

Next ==
    \/ ConnectionMade
    \/ DataReceived
    \/ ConnectionLost
    \/ Request
    \/ GetResponse
    \/ GetResponseResume
    \/ GetResponseTimeout

Spec == Init /\ [][Next]_vars

\* ======================================================= the server side
\* A server-side HttpProtocol with its WsgiHandler.  Requests arrive on the
\* transport, are put on the queue, and the dispatcher hands them one by
\* one to the handler, which runs the application and writes the response.

\* Bound: number of items the application's result yields per response.
MaxChunks == 2

\* What the application does with start_response: does not call it, or
\* calls it with a list of headers.
AppCalls == {"none", "call"}
\* The Content-Length among the application's headers: absent, present
\* with an empty value, or present with a number.
AppClens == {"None", "", "n"}
\* Items of the application's result: non-empty bytes, b'', non-empty
\* text, u'', or an object that is neither bytes nor text.
ChunkKinds == {"bytes", "empty", "text", "emptytext", "other"}

\* Python truth of a header value returned by get_field().
Truthy(clen) == clen \notin {"None", ""}

\* What is done on the writer for message id: the header block (with the
\* Transfer-Encoding and the TE header it announces, its Connection header,
\* its Content-Length and the header supplied by the application), a body
\* block ("raw" or "chunk", of size bytes), the chunked terminator (with or
\* without trailers), and close().
Entry(id, kind, chunked, te, conn, clen, app, size, trailers) ==
    [resp |-> id, kind |-> kind, chunked |-> chunked, te |-> te, conn |-> conn,
     clen |-> clen, app |-> app, size |-> size, trailers |-> trailers]
HeaderBlock(id, chunked, te, conn, clen, app) ==
    Entry(id, "header", chunked, te, conn, clen, app, 0, FALSE)
BodyBlock(id, kind, size) ==
    Entry(id, kind, FALSE, FALSE, "none", "None", NoHeader, size, FALSE)
EndBlock(id, trailers) ==
    Entry(id, "end", FALSE, FALSE, "none", "None", NoHeader, 0, trailers)
Close(id) ==
    Entry(id, "close", FALSE, FALSE, "none", "None", NoHeader, 0, FALSE)

\* '{:X}'.format(n) for the sizes of the model.
Hex(n) == IF n = 0 THEN "0" ELSE <<"1", "2", "3", "4">>[n]

\* create_chunk(buf): the size, CRLF, the bytes of buf, CRLF.
create_chunk(size) ==
    <<Hex(size), "CRLF">> \o [i \in 1..size |-> "x"] \o <<"CRLF">>

\* create_chunked_body_end(trailers): '0', CRLF, the trailer lines, CRLF.
create_chunked_body_end(trailers) ==
    <<"0", "CRLF">> \o (IF trailers THEN <<"name: value", "CRLF">> ELSE <<>>)
        \o <<"CRLF">>

\* The bytes that a block of a chunked body puts on the transport.
Bytes(e) ==
    IF e.kind = "chunk" THEN create_chunk(e.size)
    ELSE create_chunked_body_end(e.trailers)

\* The state of a handler call: the handler h and the writer log w.
Run(h, w) == [h |-> h, w |-> w]

\* send_headers() that takes the Connection header from the request's
\* should_keep_alive instead of the keep-alive it computed.
send_headersAsRequested(h, w) ==
    LET clen == h.clen
        ver == minfo[h.message].version
        chunked == clen = "None" /\ ver = "1.1"
        keepalive == minfo[h.message].should_keep_alive /\ (chunked \/ Truthy(clen))
        asked == minfo[h.message].should_keep_alive
        conn == IF ver = "1.1" /\ ~asked THEN "close"
                ELSE IF ver = "1.0" /\ asked THEN "keep-alive"
                ELSE "none"
    IN  Run([h EXCEPT !.chunked = chunked, !.keepalive = keepalive],
            Append(w, HeaderBlock(h.message, chunked, FALSE, conn, clen, h.app)))

\* send_headers(): choose the framing, compute keep-alive, add the
\* Connection header that the version does not imply, write the header.
send_headers(h, w) ==
    LET clen == h.clen
        ver == minfo[h.message].version
        chunked == clen = "None" /\ ver = "1.1"
        keepalive == minfo[h.message].should_keep_alive /\ (chunked \/ Truthy(clen))
        conn == IF ver = "1.1" /\ ~keepalive THEN "close"
                ELSE IF ver = "1.0" /\ keepalive THEN "keep-alive"
                ELSE "none"
    IN  Run([h EXCEPT !.chunked = chunked, !.keepalive = keepalive],
            Append(w, HeaderBlock(h.message, chunked, FALSE, conn, clen, h.app)))

\* start_response(status, headers): refuse a second call and a header
\* whose name in lower case is hop-by-hop, else store the status and the
\* headers.
start_response(h, hdr, clen) ==
    IF h.status THEN [h EXCEPT !.raised = "RuntimeError: already started"]
    ELSE IF hdr # NoHeader /\ lower(hdr) \in hop_by_hop
    THEN [h EXCEPT !.raised = "ValueError: hop-by-hop"]
    ELSE [h EXCEPT !.status = TRUE, !.clen = clen, !.app = hdr]

\* A header part that sends the header block whether or not it was sent.
ensure_headersAgain(h, w) ==
    LET r == send_headers(h, w)
    IN  Run([r.h EXCEPT !.headers_sent = TRUE], r.w)

\* The header part of write() and end_response(): send the header block
\* unless it was sent.
ensure_headers(h, w) ==
    IF h.headers_sent THEN Run(h, w)
    ELSE LET r == send_headers(h, w)
         IN  Run([r.h EXCEPT !.headers_sent = TRUE], r.w)

\* write(data): text is encoded, anything but text and bytes is a
\* TypeError, empty bytes are dropped; then the header block goes first
\* and the data is written, as a chunk when the framing is chunked.
write(h, w, data) ==
    IF data = "other" THEN Run([h EXCEPT !.raised = "TypeError"], w)
    ELSE IF data = "empty" THEN Run(h, w)
    ELSE LET r == ensure_headers(h, w)
             size == IF data = "emptytext" THEN 0 ELSE 1
         IN  Run(r.h, Append(r.w, BodyBlock(h.message,
                                            IF r.h.chunked THEN "chunk" ELSE "raw",
                                            size)))

\* end_response(): the header block if it was not sent, the chunked
\* terminator (with the trailers found in the environ) when the framing is
\* chunked, and close() when the request does not keep the connection.
end_response(h, w) ==
    LET r == ensure_headers(h, w)
        w1 == IF r.h.chunked THEN Append(r.w, EndBlock(h.message, h.trailers))
              ELSE r.w
    IN  IF ~minfo[h.message].should_keep_alive
        THEN Run(r.h, Append(w1, Close(h.message)))
        ELSE Run(r.h, w1)

\* A server connection after construction: as on the client, with the
\* handler of the application not yet called.
InitServer ==
    /\ version = "1.1"
    /\ transport = "None"
    /\ tclosed = FALSE
    /\ paused = FALSE
    /\ lost = FALSE
    /\ requests = <<>>
    /\ queue = <<>>
    /\ error = "None"
    /\ response = 0
    /\ message = 0
    /\ header_size = 0
    /\ body = [i \in 1..MaxMsgs |-> NoBody]
    /\ pstate = "start"
    /\ waiting = FALSE
    /\ written = <<>>
    /\ last = Outcome("none", "none", 0, "None")
    /\ delivered = 0
    /\ nreq = 0
    /\ told = <<>>
    /\ detected = FALSE
    /\ tooLarge = FALSE
    /\ server_side = TRUE
    /\ server_name = "None"
    /\ minfo = <<>>
    /\ wsgi = WsgiHandlerInit
    /\ hreq = HttpRequestInit
    /\ wire = <<>>
    /\ order = <<>>
    /\ hacc = AccInit

\* data_received() with one complete request without a body: the parser
\* runs message-begin, headers-complete (which sets the version and
\* should_keep_alive of the message and puts it on the queue) and
\* message-complete (which pauses the transport at the cap).
ServerDataReceived ==
    /\ server_side
    /\ transport = "set"
    /\ ~lost
    /\ ~tclosed
    /\ ~paused
    /\ message < MaxMsgs
    /\ Install(data_received(Parse(Ctl, "MSG")))
    /\ \E v \in Versions, ka \in BOOLEAN :
         minfo' = Append(minfo, [version |-> v, should_keep_alive |-> ka])
    /\ UNCHANGED <<version, lost, response, waiting, written, last,
                   delivered, nreq, server_side, server_name, wsgi, hreq, wire, order, hacc>>

\* message_received(): resume reading when the queue is below the cap.
message_received(q, p) == IF Len(q) < max_pipeline_size THEN FALSE ELSE p

\* __call__() that keeps the message of the previous call.
callKeepsMessage(h, id, calls, hdr, clen, tr) ==
    LET h0 == [h EXCEPT !.status = FALSE, !.clen = "None",
                        !.app = NoHeader, !.headers_sent = FALSE,
                        !.chunked = FALSE, !.environ = TRUE,
                        !.trailers = h.trailers \/ tr,
                        !.nchunks = 0, !.ndata = 0, !.raised = "None",
                        !.called = (calls # "none"), !.supplied = tr]
        h1 == IF calls = "none" THEN h0 ELSE start_response(h0, hdr, clen)
    IN  IF h1.raised # "None" THEN [h1 EXCEPT !.pc = "raised"]
        ELSE IF ~h1.status
        THEN [h1 EXCEPT !.pc = "raised", !.raised = "HttpError: no start_response"]
        ELSE [h1 EXCEPT !.pc = "body"]

\* A __call__() that goes on to the result of the application without
\* looking at the status.
callUnchecked(h, id, calls, hdr, clen, tr) ==
    LET h0 == [h EXCEPT !.message = id, !.status = FALSE, !.clen = "None",
                        !.app = NoHeader, !.headers_sent = FALSE,
                        !.chunked = FALSE, !.environ = TRUE,
                        !.trailers = h.trailers \/ tr,
                        !.nchunks = 0, !.ndata = 0, !.raised = "None",
                        !.called = (calls # "none"), !.supplied = tr]
        h1 == IF calls = "none" THEN h0 ELSE start_response(h0, hdr, clen)
    IN  IF h1.raised # "None" THEN [h1 EXCEPT !.pc = "raised"]
        ELSE [h1 EXCEPT !.pc = "body"]

\* WsgiHandler.__call__() up to the return of the application: reset the
\* per-response fields, create the environ on the first call, run the
\* application, which may put trailers in the environ and call
\* start_response(); a missing start_response() call is an HttpError.
call(h, id, calls, hdr, clen, tr) ==
    LET h0 == [h EXCEPT !.message = id, !.status = FALSE, !.clen = "None",
                        !.app = NoHeader, !.headers_sent = FALSE,
                        !.chunked = FALSE, !.environ = TRUE,
                        !.trailers = h.trailers \/ tr,
                        !.nchunks = 0, !.ndata = 0, !.raised = "None",
                        !.called = (calls # "none"), !.supplied = tr]
        h1 == IF calls = "none" THEN h0 ELSE start_response(h0, hdr, clen)
    IN  IF h1.raised # "None" THEN [h1 EXCEPT !.pc = "raised"]
        ELSE IF ~h1.status
        THEN [h1 EXCEPT !.pc = "raised", !.raised = "HttpError: no start_response"]
        ELSE [h1 EXCEPT !.pc = "body"]

\* What the application does in a call: start_response() with any header
\* and no Content-Length, or any of its ways with a header that is not
\* hop-by-hop.
HandlerArgs ==
    {<<"call", hdr, "None", FALSE>> : hdr \in AppHeader}
        \cup {<<calls, hdr, clen, tr>> : calls \in AppCalls,
                                        hdr \in {NoHeader, Name("x-app", FALSE)},
                                        clen \in AppClens, tr \in BOOLEAN}

\* The dispatcher takes the next request from the queue once the handler
\* has finished with the previous one, and hands it to message_received(),
\* which calls the handler.  (wire starts afresh: it holds the blocks of
\* the response being written.)
Dispatch ==
    /\ server_side
    /\ transport = "set"
    /\ ~tclosed
    /\ wsgi.pc # "body"
    /\ queue # <<>>
    /\ queue' = Tail(queue)
    /\ paused' = message_received(Tail(queue), paused)
    /\ \E args \in HandlerArgs :
         wsgi' = call(wsgi, Head(queue).id, args[1], args[2], args[3], args[4])
    /\ wire' = <<>>
    /\ UNCHANGED <<version, transport, tclosed, lost, requests, error, response,
                   message, header_size, body, pstate, waiting, written, last,
                   delivered, nreq, told, detected, tooLarge, server_side, server_name,
                   minfo, hreq, order, hacc>>

\* The handler takes the next item of the application's result and hands
\* it to write().  An exception ends the call; the connection is closed
\* when the header block is already out.
WriteChunk ==
    /\ wsgi.pc = "body"
    /\ wsgi.nchunks < MaxChunks
    /\ \E data \in ChunkKinds :
         LET r == write(wsgi, wire, data) IN
         /\ wsgi' = [r.h EXCEPT !.nchunks = wsgi.nchunks + 1,
                                !.ndata = IF data \in {"bytes", "text"}
                                          THEN wsgi.ndata + 1 ELSE wsgi.ndata,
                                !.pc = IF r.h.raised # "None" THEN "raised" ELSE "body"]
         /\ wire' = r.w
         /\ order' = order \o [i \in 1..(Len(r.w) - Len(wire)) |-> wsgi.message]
         /\ tclosed' = (tclosed \/ (r.h.raised # "None" /\ r.h.headers_sent))
    /\ UNCHANGED <<version, transport, paused, lost, requests, queue, error,
                   response, message, header_size, body, pstate, waiting,
                   written, last, delivered, nreq, told, detected, tooLarge,
                   server_side, server_name, minfo, hreq, hacc>>

\* The result of the application is exhausted: end_response().
EndResponse ==
    /\ wsgi.pc = "body"
    /\ LET r == end_response(wsgi, wire) IN
         /\ wsgi' = [r.h EXCEPT !.pc = "idle"]
         /\ wire' = r.w
         /\ order' = order \o [i \in 1..(Len(r.w) - Len(wire)) |-> wsgi.message]
         /\ tclosed' = (tclosed \/ ~minfo[wsgi.message].should_keep_alive)
    /\ UNCHANGED <<version, transport, paused, lost, requests, queue, error,
                   response, message, header_size, body, pstate, waiting,
                   written, last, delivered, nreq, told, detected, tooLarge,
                   server_side, server_name, minfo, hreq, hacc>>

NextServer ==
    \/ ConnectionMade
    \/ ServerDataReceived
    \/ Dispatch
    \/ WriteChunk
    \/ EndResponse

SpecServer == InitServer /\ [][NextServer]_vars

\* ================================================ the client's requests
\* A client-side HttpProtocol and the HttpRequest objects that request()
\* makes: the header block and the body blocks of every request.

\* Bound: the largest Content-Length that the application declares.
MaxLen == 2

\* Sizes of a bytes buffer.
FragSizes == {0, 1, 2}

\* A buffer handed to write(): bytes or text, of size bytes or characters.
Buf(text, size) == [text |-> text, size |-> size]

\* The Content-Type header of the application: none, one with the
\* parameter charset=utf-8, or one without a charset parameter.
ContentTypes == {"none", "charset", "plain"}

\* HttpRequest._charset after the header loop of start_request(): the
\* default, or params.get('charset') of the Content-Type header.
charset_of(ctype) ==
    IF ctype = "none" THEN "ISO-8859-1"
    ELSE IF ctype = "charset" THEN "utf-8"
    ELSE "None"

\* len(buf.encode(charset)): the characters of the model's texts take one
\* byte each in ISO-8859-1 and two in utf-8.
encoded_len(buf, charset) ==
    IF buf.text /\ charset = "utf-8" THEN 2 * buf.size ELSE buf.size

\* All sequences of at most n elements of S.
RECURSIVE SeqsUpTo(_, _)
SeqsUpTo(S, n) ==
    IF n = 0 THEN {<<>>}
    ELSE LET shorter == SeqsUpTo(S, n - 1)
         IN  shorter \cup {Append(q, x) : q \in shorter, x \in S}

\* The body argument of request(), with the fragments that request() takes
\* from it one by one: None (the application writes the body itself), bytes
\* (one fragment), text (iterated character by character), a file-like
\* object (read() returns non-empty data until it is exhausted), an
\* iterable (of fragments each empty or of size one), or an object of an
\* unsupported type.
Body(kind, frags) == [kind |-> kind, frags |-> frags]
BytesBodies ==
    {Body("None", <<>>), Body("other", <<>>)}
        \cup {Body("bytes", <<Buf(FALSE, n)>>) : n \in FragSizes}
        \cup {Body("file", f) : f \in SeqsUpTo({Buf(FALSE, 1)}, MaxChunks)}
        \cup {Body("iter", f) : f \in SeqsUpTo({Buf(FALSE, 0), Buf(FALSE, 1)}, MaxChunks)}
TextBodies ==
    {Body("None", <<>>)}
        \cup {Body("text", [i \in 1..n |-> Buf(TRUE, 1)]) : n \in FragSizes}
        \cup {Body("iter", f) : f \in SeqsUpTo({Buf(TRUE, 0), Buf(TRUE, 1)}, MaxChunks)}

\* The encoded sizes of the fragments q.
RECURSIVE Sizes(_, _)
Sizes(q, charset) ==
    IF q = <<>> THEN <<>>
    ELSE <<encoded_len(Head(q), charset)>> \o Sizes(Tail(q), charset)

RECURSIVE Sum(_)
Sum(q) == IF q = <<>> THEN 0 ELSE Head(q) + Sum(Tail(q))

\* The state of an API call on a request: the HttpRequest h, the writer
\* log w and the exception raised.
Call(h, w, raised) == [h |-> h, w |-> w, raised |-> raised]

\* The server name of a client protocol: none (a protocol made without
\* one, or connected to an address that is not a (host, port) pair), or
\* the host connected to.
ServerNames == {"None", "h"}

\* The header that the application passes to request(): one of AppHeader,
\* or a Host or a User-Agent header, with or without capitals.
ReqHeader ==
    AppHeader \cup {Name(b, c) : b \in {"host", "user-agent"}, c \in BOOLEAN}

\* start_request(): the Host and User-Agent headers of the header block,
\* in the order written.  The application's header comes first; 'Host' is
\* appended when the application gave none, the version is 1.1 and there
\* is a server name; 'User-Agent' is appended when the application gave
\* none.
request_names(hdr, ver, sname) ==
    LET host == lower(hdr) = Name("host", FALSE)
        agent == lower(hdr) = Name("user-agent", FALSE)
    IN  (IF host \/ agent THEN <<hdr>> ELSE <<>>)
            \o (IF ~host /\ ver = "1.1" /\ sname # "None"
                THEN <<Name("host", TRUE)>> ELSE <<>>)
            \o (IF ~agent THEN <<Name("user-agent", TRUE)>> ELSE <<>>)

\* HttpRequest.start_request(method, url, headers, body) for the id-th
\* request, with the application's header hdr, its Content-Type ctype and
\* the Content-Length clen it declares (-1: none).
StartRequest(id, hdr, ctype, clen, b) ==
    LET charset == charset_of(ctype)
        h == [HttpRequestInit EXCEPT !.id = id, !.hdr = hdr, !.body = b.kind,
                                     !.frags = b.frags, !.charset = charset,
                                     !.ctype = ctype]
        sized == b.kind \in {"bytes", "text"}
        length == IF clen # -1 THEN clen
                  ELSE IF sized THEN Sum(Sizes(b.frags, charset))
                  ELSE -1
        chunked == clen = -1 /\ ~sized /\ version = "1.1"
        sends == clen # -1 \/ (sized /\ length > 0)
    IN  IF hdr # NoHeader /\ lower(hdr) \in hop_by_hop
        THEN Call([h EXCEPT !.charset = "ISO-8859-1"], <<>>, "ValueError: hop-by-hop")
        ELSE IF b.kind = "other" THEN Call(h, <<>>, "TypeError")
        ELSE IF b.kind = "text" /\ charset = "None"
        THEN Call(h, <<>>, "TypeError: encode")
        ELSE IF clen = -1 /\ ~sized /\ version # "1.1"
        THEN Call(h, <<>>, "ValueError: length")
        ELSE Call([h EXCEPT !.chunked = chunked, !.content_length = length,
                            !.names = request_names(hdr, version, server_name)],
                  <<HeaderBlock(id, chunked, chunked,
                                IF version = "1.0" THEN "keep-alive" ELSE "none",
                                IF sends THEN "n" ELSE "None", hdr)>>,
                  "None")

\* write(buf) that does not compare the count with the content length.
request_writeUnchecked(c, buf) ==
    IF buf.size = 0 THEN c
    ELSE IF buf.text /\ c.h.charset = "None" THEN Call(c.h, c.w, "TypeError: encode")
    ELSE LET n == encoded_len(buf, c.h.charset)
             h == [c.h EXCEPT !.bytes_written = c.h.bytes_written + n]
         IN  Call(h, Append(c.w, BodyBlock(h.id, IF h.chunked THEN "chunk" ELSE "raw", n)),
                  "None")

\* HttpRequest.write(buf): an empty buffer is dropped; text is encoded
\* with the charset; the bytes are counted, and refused when the count
\* passes the content length; else the buffer is written, as a chunk when
\* the framing is chunked.
request_write(c, buf) ==
    IF buf.size = 0 THEN c
    ELSE IF buf.text /\ c.h.charset = "None" THEN Call(c.h, c.w, "TypeError: encode")
    ELSE LET n == encoded_len(buf, c.h.charset)
             h == [c.h EXCEPT !.bytes_written = c.h.bytes_written + n]
         IN  IF h.content_length # -1 /\ h.bytes_written > h.content_length
             THEN Call(h, c.w, "RuntimeError: too many bytes")
             ELSE Call(h, Append(c.w, BodyBlock(h.id, IF h.chunked THEN "chunk" ELSE "raw", n)),
                       "None")

\* HttpRequest.end_request(trailers): trailers need the chunked framing;
\* the chunked terminator is written when the framing is chunked.
end_request(c, trailers) ==
    IF trailers /\ ~c.h.chunked THEN Call(c.h, c.w, "RuntimeError: trailers")
    ELSE IF c.h.chunked THEN Call(c.h, Append(c.w, EndBlock(c.h.id, trailers)), "None")
    ELSE c

\* The loops of request() over the fragments of the body: write() each,
\* until one raises.
RECURSIVE WriteAll(_, _)
WriteAll(c, frags) ==
    IF frags = <<>> \/ c.raised # "None" THEN c
    ELSE WriteAll(request_write(c, Head(frags)), Tail(frags))

\* request() after its guard: start the request; with a body of None hand
\* the open HttpRequest to the application, else write the body and end
\* the request.
send_request(id, hdr, ctype, clen, b) ==
    LET c == StartRequest(id, hdr, ctype, clen, b) IN
    IF c.raised # "None" THEN c
    ELSE IF b.kind = "None" THEN Call([c.h EXCEPT !.open = TRUE], c.w, "None")
    ELSE LET d == WriteAll(c, b.frags)
         IN  IF d.raised # "None" THEN d ELSE end_request(d, FALSE)

\* The outcome of an API call on a request.
Ended(op, c) ==
    IF c.raised = "None" THEN Outcome(op, "return", 0, "None")
    ELSE Outcome(op, "raise", 0, c.raised)

InitRequest ==
    /\ version \in Versions
    /\ transport = "None"
    /\ tclosed = FALSE
    /\ paused = FALSE
    /\ lost = FALSE
    /\ requests = <<>>
    /\ queue = <<>>
    /\ error = "None"
    /\ response = 0
    /\ message = 0
    /\ header_size = 0
    /\ body = [i \in 1..MaxMsgs |-> NoBody]
    /\ pstate = "start"
    /\ waiting = FALSE
    /\ written = <<>>
    /\ last = Outcome("none", "none", 0, "None")
    /\ delivered = 0
    /\ nreq = 0
    /\ told = <<>>
    /\ detected = FALSE
    /\ tooLarge = FALSE
    /\ server_side = FALSE
    /\ server_name \in ServerNames
    /\ minfo = <<>>
    /\ wsgi = WsgiHandlerInit
    /\ hreq = HttpRequestInit
    /\ wire = <<>>
    /\ order = <<>>
    /\ hacc = AccInit

\* The arguments of a request() call (header, Content-Type, declared
\* Content-Length, body): any header with a body of b''; any declared
\* length with any body of bytes; any Content-Type and any declared length
\* with any body of text (the Content-Type matters to text only).
RequestArgs ==
    {<<hdr, "none", -1, Body("bytes", <<Buf(FALSE, 0)>>)>> : hdr \in ReqHeader}
        \cup {<<NoHeader, "none", clen, b>> : clen \in -1..MaxLen, b \in BytesBodies}
        \cup {<<NoHeader, ctype, clen, b>> : ctype \in ContentTypes,
                                            clen \in -1..MaxLen, b \in TextBodies}

\* The application calls request('GET', url, headers, body).  (A call made
\* while the previous HttpRequest is open replaces hreq and wire like a
\* call made after end_request(), and leads to the same states.)
ClientRequest ==
    /\ ~server_side
    /\ ~hreq.open
    /\ nreq < MaxRequests
    /\ nreq' = nreq + 1
    /\ IF RequestGuard # "None"
       THEN /\ last' = Outcome("request", "raise", 0, RequestGuard)
            /\ UNCHANGED <<requests, written, hreq, wire>>
       ELSE \E args \in RequestArgs :
              LET c == send_request(nreq + 1, args[1], args[2], args[3], args[4]) IN
              /\ requests' = Append(requests, "GET")
              /\ written' = IF c.w = <<>> THEN written ELSE Append(written, "GET")
              /\ hreq' = c.h
              /\ wire' = c.w
              /\ last' = Ended("request", c)
    /\ UNCHANGED <<version, transport, tclosed, paused, lost, queue, error,
                   response, message, header_size, body, pstate, waiting,
                   delivered, told, detected, tooLarge, server_side, server_name, minfo,
                   wsgi, order, hacc>>

\* The buffers that the application hands to write() itself.
WriteBufs == {Buf(FALSE, n) : n \in FragSizes} \cup {Buf(TRUE, 0), Buf(TRUE, 1)}

\* The application calls write(buf) on the open HttpRequest.
ClientWrite ==
    /\ ~server_side
    /\ hreq.open
    /\ hreq.nwrites < MaxChunks
    /\ \E buf \in WriteBufs :
         LET c == request_write(Call(hreq, wire, "None"), buf) IN
         /\ hreq' = [c.h EXCEPT !.nwrites = hreq.nwrites + 1]
         /\ wire' = c.w
         /\ last' = Ended("write", c)
    /\ UNCHANGED <<version, transport, tclosed, paused, lost, requests, queue,
                   error, response, message, header_size, body, pstate, waiting,
                   written, delivered, nreq, told, detected, tooLarge,
                   server_side, server_name, minfo, wsgi, order, hacc>>

\* The application calls end_request(trailers) on the open HttpRequest.
ClientEndRequest ==
    /\ ~server_side
    /\ hreq.open
    /\ \E trailers \in BOOLEAN :
         LET c == end_request(Call(hreq, wire, "None"), trailers) IN
         /\ hreq' = [c.h EXCEPT !.open = c.raised # "None"]
         /\ wire' = c.w
         /\ last' = Ended("end_request", c)
    /\ UNCHANGED <<version, transport, tclosed, paused, lost, requests, queue,
                   error, response, message, header_size, body, pstate, waiting,
                   written, delivered, nreq, told, detected, tooLarge,
                   server_side, server_name, minfo, wsgi, order, hacc>>

NextRequest ==
    \/ ConnectionMade
    \/ ClientRequest
    \/ ClientWrite
    \/ ClientEndRequest

SpecRequest == InitRequest /\ [][NextRequest]_vars

\* ===================================================== either side
\* A connection of either side: a server with its handler, or a client
\* with its requests.
InitWriters == InitServer \/ InitRequest

NextWriters == NextServer \/ NextRequest

SpecWriters == InitWriters /\ [][NextWriters]_vars

\* ===================================================== a client that closes
\* A client connection on which the application issues requests and writes
\* to the open HttpRequest while the transport delivers data and reports
\* the loss of the connection.
\* The arguments of a request() call whose body the application writes
\* itself: a body of None, with or without a declared Content-Length.
OpenArgs == {<<NoHeader, "none", clen, Body("None", <<>>)>> : clen \in {-1, MaxLen}}

\* The application calls request('GET', url, headers, body=None).
ClientOpenRequest ==
    /\ ~server_side
    /\ ~hreq.open
    /\ nreq < MaxRequests
    /\ nreq' = nreq + 1
    /\ IF RequestGuard # "None"
       THEN /\ last' = Outcome("request", "raise", 0, RequestGuard)
            /\ UNCHANGED <<requests, written, hreq, wire>>
       ELSE \E args \in OpenArgs :
              LET c == send_request(nreq + 1, args[1], args[2], args[3], args[4]) IN
              /\ requests' = Append(requests, "GET")
              /\ written' = IF c.w = <<>> THEN written ELSE Append(written, "GET")
              /\ hreq' = c.h
              /\ wire' = c.w
              /\ last' = Ended("request", c)
    /\ UNCHANGED <<version, transport, tclosed, paused, lost, queue, error,
                   response, message, header_size, body, pstate, waiting,
                   delivered, told, detected, tooLarge, server_side, server_name, minfo,
                   wsgi, order, hacc>>

NextClosing ==
    \/ ConnectionMade
    \/ ClientOpenRequest
    \/ ClientWrite
    \/ ClientEndRequest
    \/ DataReceived
    \/ ConnectionLost

SpecClosing == InitRequest /\ [][NextClosing]_vars

\* ================================================== header accumulators
\* The bytes of the header names and of the header values on the wire.
FieldBytes == {"a", "b"}
ValueBytes == {"1"}

\* The slices that on_header_field() and on_header_value() receive: one
\* byte of a name; one byte of a value, or an empty slice of a value (the
\* parser marks the value at its start and reports what it has of it
\* where the value or the data ends, which may be nothing).
FieldSlices == {<<x>> : x \in FieldBytes}
ValueSlices == {<<>>} \cup {<<x>> : x \in ValueBytes}

\* A header line as the parser has reported it so far: its name, its
\* value, whether it came after headers-complete, and whether the latest
\* slice of its value was empty.
Line(name, value, trailer, ended) ==
    [name |-> name, value |-> value, trailer |-> trailer, ended |-> ended]

\* The lines with one more slice of a name: the slice continues the name
\* of the last line when the parser is inside a name, else it opens a line.
FieldReported(a, buf) ==
    IF a.pos = "field"
    THEN [a.lines EXCEPT ![Len(a.lines)].name = @ \o buf]
    ELSE Append(a.lines, Line(buf, <<>>, a.body, FALSE))

\* The lines with one more slice of the value of the last line.
ValueReported(a, buf) ==
    [a.lines EXCEPT ![Len(a.lines)].value = @ \o buf,
                    ![Len(a.lines)].ended = (buf = <<>>)]

\* The (name, value) pairs of the lines q reported before (trailer = FALSE)
\* or after (trailer = TRUE) headers-complete, in wire order.
RECURSIVE Pairs(_, _)
Pairs(q, trailer) ==
    IF q = <<>> THEN <<>>
    ELSE (IF Head(q).trailer = trailer THEN <<<<Head(q).name, Head(q).value>>>>
          ELSE <<>>) \o Pairs(Tail(q), trailer)

\* The header in progress is stashed away, among the trailers when the
\* message has its body stream and among the headers otherwise, and the
\* accumulators are cleared.
Stash(a) ==
    LET header == <<a.field, a.value>> IN
    IF a.body
    THEN [a EXCEPT !.trailers = Append(@, header), !.field = <<>>, !.value = <<>>]
    ELSE [a EXCEPT !.headers = Append(@, header), !.field = <<>>, !.value = <<>>]

\* HttpProtocol._append_header_field(buf): a name that follows a value
\* starts a new header, and the previous one is stashed.
_append_header_field(a, buf) ==
    LET a1 == IF a.value # <<>> THEN Stash(a) ELSE a
    IN  [a1 EXCEPT !.field = @ \o buf]

\* HttpProtocol._append_header_value(buf): a non-empty buf extends the
\* value; an empty one completes the header in progress, if there is one.
_append_header_value(a, buf) ==
    IF buf # <<>> THEN [a EXCEPT !.value = @ \o buf]
    ELSE IF a.field # <<>> THEN Stash(a)
    ELSE a

\* on_message_begin on the accumulators: _url and the accumulators are
\* emptied, and there is a new HttpMessage without headers, trailers or
\* body.
begin_message(a) == [AccInit EXCEPT !.pos = "start"]

\* on_headers_complete on the accumulators: the header in progress is
\* completed, and the message gets its body stream.
complete_headers(a) == [_append_header_value(a, <<>>) EXCEPT !.body = TRUE]

\* on_message_complete on the accumulators: the trailer in progress is
\* completed, then the body stream is fed the EOF; seen is the value of
\* message.trailers at the feed.
complete_message(a) ==
    LET a1 == _append_header_value(a, <<>>)
    IN  [a1 EXCEPT !.eof = TRUE, !.seen = a1.trailers]

InitParser ==
    /\ version \in Versions
    /\ transport = "None"
    /\ tclosed = FALSE
    /\ paused = FALSE
    /\ lost = FALSE
    /\ requests = <<>>
    /\ queue = <<>>
    /\ error = "None"
    /\ response = 0
    /\ message = 0
    /\ header_size = 0
    /\ body = [i \in 1..MaxMsgs |-> NoBody]
    /\ pstate = "start"
    /\ waiting = FALSE
    /\ written = <<>>
    /\ last = Outcome("none", "none", 0, "None")
    /\ delivered = 0
    /\ nreq = 0
    /\ told = <<>>
    /\ detected = FALSE
    /\ tooLarge = FALSE
    /\ server_side \in BOOLEAN
    /\ server_name = "None"
    /\ minfo = <<>>
    /\ wsgi = WsgiHandlerInit
    /\ hreq = HttpRequestInit
    /\ wire = <<>>
    /\ order = <<>>
    /\ hacc = AccInit

\* The parser is running on data of an open connection.
Parsing == transport = "set" /\ ~lost /\ ~tclosed /\ pstate # "dead"

\* The parser has stopped on the error of a callback: it is dead, and
\* data_received() handles the error.
Stopped(c) == data_received(ParseFail(c))

\* The parser reports the start of a message.
MessageBegin ==
    /\ Parsing
    /\ hacc.pos \in {"none", "done"}
    /\ message < MaxMsgs
    /\ Install(on_message_begin(Ctl))
    /\ hacc' = [begin_message(hacc) EXCEPT
                   !.pos = IF server_side THEN "line" ELSE "start"]
    /\ UNCHANGED <<version, lost, response, waiting, written, last, delivered,
                   nreq, server_side, server_name, minfo, wsgi, hreq, wire, order>>

\* The slices of the URL that on_url() receives.
UrlSlices == {<<"u">>}

\* The parser of a server reports a slice of the URL of the request line.
Url ==
    /\ Parsing
    /\ hacc.pos \in {"line", "url"}
    /\ \E buf \in UrlSlices :
         LET c == on_url(Ctl, Len(buf)) IN
         IF c.ret # 0
         THEN /\ Install(Stopped(c))
              /\ hacc' = [hacc EXCEPT !.pos = "dead"]
         ELSE /\ Install(c)
              /\ hacc' = [hacc EXCEPT !.url = @ \o buf, !.pos = "url"]
    /\ UNCHANGED <<version, lost, response, waiting, written, last, delivered,
                   nreq, server_side, server_name, minfo, wsgi, hreq, wire, order>>

\* The parser reports a slice of a header name, before headers-complete or
\* (a trailer) after the body.
HeaderField ==
    /\ Parsing
    /\ hacc.pos \in {"start", "url", "field", "value", "vdone", "body"}
    /\ \E buf \in FieldSlices :
         LET c == on_header_field(Ctl, Len(buf)) IN
         IF c.ret # 0
         THEN /\ Install(Stopped(c))
              /\ hacc' = [hacc EXCEPT !.pos = "dead"]
         ELSE /\ Install(c)
              /\ hacc' = [_append_header_field(hacc, buf) EXCEPT
                             !.lines = FieldReported(hacc, buf), !.pos = "field"]
    /\ UNCHANGED <<version, lost, response, waiting, written, last, delivered,
                   nreq, server_side, server_name, minfo, wsgi, hreq, wire, order>>

\* The parser reports a slice of the value of the header whose name it has
\* reported: every name is followed by at least one slice of its value, and
\* a value may come in several slices (the data was cut inside it, or its
\* line is folded), each of them empty or not.
HeaderValue ==
    /\ Parsing
    /\ hacc.pos \in {"field", "value", "vdone"}
    /\ \E buf \in ValueSlices :
         LET c == on_header_value(Ctl, Len(buf)) IN
         IF c.ret # 0
         THEN /\ Install(Stopped(c))
              /\ hacc' = [hacc EXCEPT !.pos = "dead"]
         ELSE /\ Install(c)
              /\ hacc' = [_append_header_value(hacc, buf) EXCEPT
                             !.lines = ValueReported(hacc, buf),
                             !.pos = IF buf = <<>> THEN "vdone" ELSE "value"]
    /\ UNCHANGED <<version, lost, response, waiting, written, last, delivered,
                   nreq, server_side, server_name, minfo, wsgi, hreq, wire, order>>

\* The parser reports the end of the header block of a message with a
\* body.
HeadersComplete ==
    /\ Parsing
    /\ ~hacc.body
    /\ hacc.pos \in {"start", "url", "value", "vdone"}
    /\ Install(on_headers_complete(Ctl))
    /\ hacc' = [complete_headers(hacc) EXCEPT !.pos = "body"]
    /\ UNCHANGED <<version, lost, response, waiting, written, last, delivered,
                   nreq, server_side, server_name, minfo, wsgi, hreq, wire, order>>

\* The parser reports a slice of the body.
BodyData ==
    /\ Parsing
    /\ hacc.pos = "body"
    /\ Install(on_body(Ctl))
    /\ UNCHANGED <<version, lost, response, waiting, written, last, delivered,
                   nreq, srv>>

\* The parser reports the end of the message, after the body and the
\* trailers.
MessageComplete ==
    /\ Parsing
    /\ hacc.body
    /\ hacc.pos \in {"body", "value", "vdone"}
    /\ Install(on_message_complete(Ctl))
    /\ hacc' = [complete_message(hacc) EXCEPT !.pos = "done"]
    /\ UNCHANGED <<version, lost, response, waiting, written, last, delivered,
                   nreq, server_side, server_name, minfo, wsgi, hreq, wire, order>>

NextParser ==
    \/ ConnectionMade
    \/ MessageBegin
    \/ Url
    \/ HeaderField
    \/ HeaderValue
    \/ HeadersComplete
    \/ BodyData
    \/ MessageComplete

SpecParser == InitParser /\ [][NextParser]_vars

\* ---------------------------------------------------------------- claims
IsExc(entry) == entry.kind = "exc"
NumExc(q) == Len(SelectSeq(q, IsExc))
Returned == last.op = "getresponse" /\ last.kind = "return"
UsageErrors == {"ValueError: hop-by-hop", "TypeError", "ValueError: length"}

\* C1: the k-th message that getresponse() returns is the k-th message whose
\* headers arrived (message ids count the messages in wire order, and the
\* peer answers requests in order): none is skipped, repeated or reordered.
C1_PipelineOrder ==
    (Returned /\ response # 0) => (last.id = delivered /\ response = delivered)

\* C1 witness: two requests were written, each was answered after it was
\* written, and the second getresponse() has returned the second response.
C1_Witness ==
    /\ Returned /\ last.id = 2 /\ delivered = 2 /\ Len(sent) = 2
    /\ Len(told) = 2 /\ told[1].answers /\ told[2].answers

\* C2: every getresponse() call ends with the response of its request, in
\* request order, or with an error; and once the connection is lost no call
\* is left suspended with nothing on the queue to end it.
C2_ResponseOrError ==
    /\ Returned => (last.id # 0 /\ last.id = delivered)
    /\ (lost /\ waiting) => queue # <<>>

\* C3: once data_received() has detected a parse error, request() and
\* getresponse() raise that parse error in every later state.
C3_StickyParseError ==
    detected => (RequestGuard = "ParseError" /\ GetResponseGuard = "ParseError")

\* C4: the data_received() call that detects a parse error stores it in the
\* error slot, feeds it to the body stream of the current message if there
\* is one, puts exactly one error sentinel on the queue and closes the
\* transport.
C4_ParseErrorPropagation ==
    [][(~detected /\ detected') =>
          /\ error' = "ParseError"
          /\ tclosed'
          /\ NumExc(queue') = NumExc(queue) + 1
          /\ (message' # 0 /\ body'[message'].exists) =>
                 body'[message'].err = "ParseError"]_vars

\* C5: after a header callback has rejected an oversize header, the error
\* that getresponse() raises is the 'HTTP header too large' error.
C5_HeaderTooLarge ==
    tooLarge => GetResponseGuard = "HeaderTooLarge"

\* C6: once connection_lost() has been reported on a client, the entry it
\* put on the queue is an error; nothing but messages and errors is ever on
\* the queue, and no getresponse() returns a response without a message.
C6_LostSentinel ==
    /\ \A i \in 1..Len(queue) : queue[i].kind \in {"msg", "exc"}
    /\ (lost /\ queue # <<>>) => queue[Len(queue)].kind = "exc"
    /\ Returned => last.id # 0

\* C7: a request() call that raises a usage error leaves the
\* outstanding-request log, the queue and the written blocks as they were.
C7_UsageErrorFrame ==
    [][(nreq' = nreq + 1 /\ last'.kind = "raise" /\ last'.err \in UsageErrors) =>
          (requests' = requests /\ queue' = queue /\ written' = written)]_vars

\* C8: at headers-complete of the k-th response the parser is told that no
\* body follows exactly when the k-th request written was a HEAD.
C8_HeadSuppression ==
    \A k \in 1..Len(told) :
        told[k].answers => ((told[k].ret = 1) <=> (sent[k] = "HEAD"))

\* C9: while the body of the response returned by the previous getresponse()
\* has not reached EOF, a getresponse() call raises and takes nothing from
\* the queue; so every response returned before the latest one has its body
\* at EOF.
C9_OneOpenBody ==
    /\ [](\A i \in 1..MaxMsgs : i < delivered => body[i].eof)
    /\ [][(response # 0 /\ ~body[response].eof) =>
            /\ Len(queue') >= Len(queue)
            /\ response' = response
            /\ ~waiting'
            /\ (last' # last /\ last'.op = "getresponse") => last'.kind = "raise"]_vars

\* C9 witness: a request is still unanswered and getresponse() has been
\* refused because the body of the response to an earlier request, which it
\* returned before, is unfinished.
C9_Witness ==
    /\ last.op = "getresponse" /\ last.kind = "raise" /\ last.err = "BodyNotRead"
    /\ response # 0 /\ ~body[response].eof /\ told[response].answers
    /\ requests # <<>>

\* C10: the queue never holds more than max_pipeline_size + 1 entries, and
\* the transport is paused (or already closed or gone) whenever the queue
\* has reached max_pipeline_size.
C10_QueueBound ==
    /\ Len(queue) <= max_pipeline_size + 1
    /\ Len(queue) >= max_pipeline_size => (paused \/ tclosed \/ lost)

\* C11: a step that takes an entry off the queue of a paused connection and
\* leaves the depth below max_pipeline_size resumes reading (here on the
\* client, where the step is getresponse() dequeuing a response).
C11_ResumeOnConsume ==
    [][(paused /\ ~lost /\ ~tclosed /\ Len(queue') < Len(queue)
            /\ Len(queue') < max_pipeline_size) => ~paused']_vars

\* Message i is on the pipeline queue.
Queued(i) == \E j \in 1..Len(queue) : queue[j] = MsgEntry(i)
\* Message i has been taken from the queue by getresponse().
Taken(i) == i <= delivered

\* C12 as stated: on the client a response is on the queue, or returned by
\* getresponse(), only after its message-complete event (its body is at EOF
\* or has been fed the error that ended it).
C12_QueuedAtMessageComplete ==
    \A i \in 1..MaxMsgs :
        (Queued(i) \/ Taken(i)) => (body[i].eof \/ body[i].err # "None")

\* C12 amended: a message is put on the queue at its headers-complete
\* event: a message is on the queue or taken from it exactly when
\* headers-complete has attached its body stream, so no response is visible
\* to getresponse() before headers-complete.
C12_QueuedAtHeadersComplete ==
    \A i \in 1..MaxMsgs : body[i].exists <=> (Queued(i) \/ Taken(i))

\* C12 witness: getresponse() has returned the response to a request while
\* the body of that response is still arriving.
C12_Witness ==
    /\ Returned /\ response # 0 /\ last.id = response
    /\ told[response].answers
    /\ ~body[response].eof /\ body[response].err = "None" /\ pstate = "body"

\* The handler has ended the response to the request it was called with.
ResponseEnded == wsgi.pc = "idle" /\ wsgi.message # 0

\* C13: when a server response has ended, its keep-alive is the request's
\* should_keep_alive and (chunked framing or a Content-Length), and the
\* transport was closed after the last block of the response exactly when
\* that keep-alive is false.
C13_KeepAliveClose ==
    ResponseEnded =>
        /\ wsgi.keepalive <=> (minfo[wsgi.message].should_keep_alive
                                  /\ (wsgi.chunked \/ Truthy(wsgi.clen)))
        /\ (wire[Len(wire)].kind = "close") <=> ~wsgi.keepalive
        /\ tclosed <=> ~wsgi.keepalive

\* The latest call of the application was refused for a hop-by-hop header:
\* request() on a client, start_response() on a server.
HopRefused ==
    IF server_side THEN wsgi.raised = "ValueError: hop-by-hop"
    ELSE last.op = "request" /\ last.err = "ValueError: hop-by-hop"

\* C14: no header block handed to the writer carries a header of the
\* application whose name, in lower case, is one of the hop-by-hop names;
\* and when request() or start_response() has refused such a header,
\* nothing of that message has been written.
C14_NoHopByHop ==
    /\ \A i \in 1..Len(wire) :
          wire[i].kind = "header" =>
              \A n \in hop_by_hop : wire[i].app.base # n.base
    /\ HopRefused => wire = <<>>

\* C14 witness: after a request that was written, request() has refused a
\* request whose header is named TE, in capitals.
C14_Witness ==
    /\ ~server_side /\ HopRefused /\ hreq.hdr = Name("te", TRUE)
    /\ nreq = 2 /\ Len(written) = 1 /\ wire = <<>>

RECURSIVE BodyBytes(_)
BodyBytes(w) ==
    IF w = <<>> THEN 0
    ELSE (IF Head(w).kind \in {"raw", "chunk"} THEN Head(w).size ELSE 0)
             + BodyBytes(Tail(w))

\* C16: for a request with a known content length, the body bytes handed
\* to the writer never exceed that length; and a write() call of the
\* application that would exceed it raises and writes nothing.
C16_ContentLengthBound ==
    /\ [](hreq.content_length # -1 => BodyBytes(wire) <= hreq.content_length)
    /\ [][(hreq.content_length # -1 /\ hreq'.nwrites = hreq.nwrites + 1
             /\ BodyBytes(wire) + (hreq'.bytes_written - hreq.bytes_written)
                    > hreq.content_length)
            => (wire' = wire /\ last'.op = "write" /\ last'.kind = "raise")]_vars

\* C16 witness: the application declared a Content-Length of 2, wrote one
\* byte, and a write() that would pass the length was refused.
C16_Witness ==
    /\ hreq.content_length = 2 /\ BodyBytes(wire) = 1
    /\ hreq.body = "None" /\ hreq.nwrites = 2
    /\ last.op = "write" /\ last.err = "RuntimeError: too many bytes"

\* The blocks of w of the kinds K.
OfKinds(w, K) == {i \in 1..Len(w) : w[i].kind \in K}

\* Block e reads as the last chunk of a chunked body: its size line is 0.
LastChunk(e) ==
    e.kind \in {"chunk", "end"} /\ SubSeq(Bytes(e), 1, 2) = <<"0", "CRLF">>

\* C17: the framing of a server response that has ended.  With a
\* Content-Length from the application: no Transfer-Encoding, the body
\* raw, no terminator.  Else on HTTP/1.1: 'Transfer-Encoding: chunked',
\* one chunk for every non-empty write, and exactly one block that reads
\* as the chunked terminator, after all chunks.  Else: the body raw, no
\* terminator, and keep-alive off.
C17_Framing ==
    ResponseEnded =>
        LET body_blocks == OfKinds(wire, {"raw", "chunk"})
            last_chunks == {i \in 1..Len(wire) : LastChunk(wire[i])}
        IN  /\ wire[1].kind = "header"
            /\ IF wsgi.clen # "None"
               THEN /\ ~wire[1].chunked
                    /\ OfKinds(wire, {"chunk", "end"}) = {}
               ELSE IF minfo[wsgi.message].version = "1.1"
               THEN /\ wire[1].chunked
                    /\ OfKinds(wire, {"raw"}) = {}
                    /\ Cardinality({i \in body_blocks : wire[i].size > 0}) = wsgi.ndata
                    /\ Cardinality(last_chunks) = 1
                    /\ \A i \in body_blocks : \A j \in last_chunks : i < j
               ELSE /\ ~wire[1].chunked
                    /\ OfKinds(wire, {"chunk", "end"}) = {}
                    /\ ~wsgi.keepalive

\* The keep-alive of the response being written, from the request and
\* the header block: should_keep_alive and (chunked or a Content-Length).
ComputedKeepAlive ==
    /\ minfo[wsgi.message].should_keep_alive
    /\ wire[1].chunked \/ Truthy(wire[1].clen)

\* C18: the header block of a server response carries 'Connection: close'
\* exactly when the request is HTTP/1.1 and the computed keep-alive is
\* false, 'Connection: keep-alive' exactly when the request is HTTP/1.0
\* and the computed keep-alive is true, and no Connection header otherwise.
C18_ConnectionHeader ==
    (server_side /\ wire # <<>>) =>
        LET ver == minfo[wsgi.message].version IN
        /\ wire[1].kind = "header"
        /\ wire[1].conn = "close" <=> (ver = "1.1" /\ ~ComputedKeepAlive)
        /\ wire[1].conn = "keep-alive" <=> (ver = "1.0" /\ ComputedKeepAlive)
        /\ wire[1].conn \in {"close", "keep-alive", "none"}

\* C18 witness: the response to an HTTP/1.0 keep-alive request has ended
\* with 'Connection: keep-alive' and a Content-Length in its header block.
C18_Witness ==
    /\ ResponseEnded /\ minfo[wsgi.message].version = "1.0"
    /\ wire[1].conn = "keep-alive" /\ wire[1].clen = "n" /\ Len(wire) = 2

\* The sizes of q that are not zero, in order.
NonEmpty(q) == SelectSeq(q, LAMBDA n : n > 0)

\* request() has just been called with a body that is a file-like object
\* or an iterable, without a Content-Length (and has passed its guard).
UnsizedRequest ==
    /\ ~server_side /\ last.op = "request" /\ nreq > 0 /\ hreq.id = nreq
    /\ hreq.body \in {"file", "iter"} /\ hreq.content_length = -1

\* C19: a request() call with a file-like or iterable body and no
\* Content-Length.  On HTTP/1.1 it returns, having written a header block
\* with 'Transfer-Encoding: chunked' and 'TE: trailers', then one chunk for
\* each non-empty fragment, in order, then one terminator block, the only
\* block that reads as a last chunk.  On HTTP/1.0 it raises and has written
\* nothing.
C19_ChunkedRequest ==
    UnsizedRequest =>
        IF version = "1.1"
        THEN LET sizes == NonEmpty(Sizes(hreq.frags, hreq.charset)) IN
             /\ last.kind = "return"
             /\ Len(wire) = Len(sizes) + 2
             /\ wire[1].kind = "header" /\ wire[1].chunked /\ wire[1].te
             /\ \A i \in 1..Len(sizes) :
                    wire[i + 1].kind = "chunk" /\ wire[i + 1].size = sizes[i]
             /\ wire[Len(wire)].kind = "end"
             /\ {i \in 1..Len(wire) : LastChunk(wire[i])} = {Len(wire)}
        ELSE last.kind = "raise" /\ wire = <<>>

\* The trailers of the current message, as the parser has reported them.
Trailers == Pairs(hacc.lines, TRUE)

\* C20, as stated: when the body stream is fed the EOF, message.trailers
\* holds every trailer of the message; and before message-complete the
\* last trailer reported so far is not in message.trailers.
C20_LastTrailerAtComplete ==
    /\ hacc.eof => (hacc.seen = Trailers /\ hacc.trailers = Trailers)
    /\ (Trailers # <<>> /\ ~hacc.eof) => Len(hacc.trailers) < Len(Trailers)

\* The headers of the current message, as the parser has reported them.
Headers == Pairs(hacc.lines, FALSE)

\* C21: once the header block of a message is complete, message.headers is
\* the list of the (name, value) pairs that the parser reported before
\* headers-complete, and once the message is complete, message.trailers is
\* the list of those it reported after it: each in wire order, with the
\* slices of every name and of every value concatenated.
C21_HeaderLists ==
    /\ hacc.body => hacc.headers = Headers
    /\ hacc.eof => hacc.trailers = Trailers

\* The number of bytes in the pairs q.
RECURSIVE PairBytes(_)
PairBytes(q) ==
    IF q = <<>> THEN 0
    ELSE Len(Head(q)[1]) + Len(Head(q)[2]) + PairBytes(Tail(q))

\* The bytes accumulated for the current message: the URL, the header in
\* progress, and the headers and trailers stashed.
Accumulated ==
    Len(hacc.url) + Len(hacc.field) + Len(hacc.value)
        + PairBytes(hacc.headers) + PairBytes(hacc.trailers)

\* C22: the bytes accumulated for the URL, the header names and the header
\* values of the current message never exceed max_header_size; the counter
\* passes the cap only with an error, the parser stopped; message-begin
\* resets the counter and the accumulators; and the event that pushes the
\* counter over the cap is rejected: none of its bytes is appended, and the
\* message does not get to headers-complete by it.
C22_HeaderCap ==
    /\ [](/\ Accumulated <= max_header_size
          /\ header_size <= max_header_size => Accumulated = header_size
          /\ header_size > max_header_size =>
                (tooLarge /\ error # "None" /\ pstate = "dead"))
    /\ [][message' # message => (header_size' = 0 /\ Accumulated' = 0)]_vars
    /\ [][(header_size <= max_header_size /\ header_size' > max_header_size)
            => /\ hacc'.url = hacc.url /\ hacc'.field = hacc.field
               /\ hacc'.value = hacc.value /\ hacc'.headers = hacc.headers
               /\ hacc'.trailers = hacc.trailers
               /\ hacc'.body = hacc.body /\ hacc'.pos = "dead"]_vars

\* C22 witness: on a server, a slice of a header value was rejected in the
\* second message, whose URL and header name fill the cap, before its
\* headers-complete.
C22_Witness ==
    /\ server_side /\ message = 2 /\ tooLarge /\ ~hacc.body
    /\ header_size = max_header_size + 1 /\ Accumulated = max_header_size
    /\ hacc.url # <<>> /\ hacc.field # <<>>

\* The latest API call was a getresponse() whose queue wait timed out.
TimedOut == last.op = "getresponse" /\ last.err = "Timeout"

\* C23: a getresponse() call that waits on the queue and times out changes
\* nothing of the connection, neither when it starts to wait nor when the
\* wait times out: the queue, the outstanding-request log, the error slot
\* and the current response are as before and the transport is not closed;
\* and a getresponse() that returns a response next returns the next
\* message in wire order.
C23_TimeoutFrame ==
    /\ [][((~waiting /\ waiting') \/ (waiting /\ TimedOut'))
            => /\ UNCHANGED <<queue, requests, error, response, delivered>>
               /\ UNCHANGED <<transport, tclosed, paused, lost>>]_vars
    /\ [][(TimedOut /\ last'.op = "getresponse" /\ last'.kind = "return")
            => /\ last'.id = delivered + 1
               /\ response' = last'.id
               /\ queue = <<MsgEntry(last'.id)>> \o queue']_vars

\* C23 witness: after the response to the first request was returned, a
\* getresponse() for the second timed out, and then the second response
\* arrived: it is on the queue of the open connection.
C23_Witness ==
    /\ TimedOut /\ ~waiting /\ delivered = 1 /\ response = 1
    /\ queue = <<MsgEntry(2)>> /\ error = "None"
    /\ transport = "set" /\ ~tclosed

\* The connection is closed: data_received() has seen a fatal parse error,
\* the controller has closed the transport, or the connection is lost.
Closed == detected \/ tclosed \/ lost

\* The ids of the parsed messages on the queue.
MsgIds(q) == {q[i].id : i \in {j \in 1..Len(q) : q[j].kind = "msg"}}

\* C24: once the connection is closed (fatal parse error, transport close)
\* it stays closed, no further parsed message is put on the queue, and no
\* further block is written, whatever callback or API call follows.
C24_ClosedIsTerminal ==
    [][Closed => /\ Closed'
                 /\ MsgIds(queue') \subseteq MsgIds(queue)
                 /\ written' = written
                 /\ wire' = wire]_vars

\* The headers named base (in any letter case) among the names q.
Named(q, base) == SelectSeq(q, LAMBDA n : lower(n) = Name(base, FALSE))

\* A request() call has written the header block of the HttpRequest.
BlockWritten ==
    ~server_side /\ hreq.id # 0 /\ wire # <<>> /\ wire[1].kind = "header"

\* C25: the header block of every HTTP/1.1 request has one Host header and
\* the header block of every request has one User-Agent header: the
\* application's, in whatever letter case, or else the one request() adds.
C25_HostAndUserAgent ==
    BlockWritten =>
        /\ version = "1.1" => Len(Named(hreq.names, "host")) = 1
        /\ Len(Named(hreq.names, "user-agent")) = 1
        /\ \A b \in {"host", "user-agent"} :
              lower(hreq.hdr) = Name(b, FALSE) => Named(hreq.names, b) = <<hreq.hdr>>

\* The charset that the Content-Type header ctype asks for: its charset
\* parameter, or ISO-8859-1.
Charset(ctype) == IF ctype = "charset" THEN "utf-8" ELSE "ISO-8859-1"

\* C26: the text handed to request() or to write() is encoded with the
\* charset parameter of the application's Content-Type header, and with
\* ISO-8859-1 when the header or the parameter is absent: the encoder
\* refuses no text, and the HttpRequest encodes with that charset.
C26_TextCharset ==
    (~server_side /\ hreq.id # 0) =>
        /\ hreq.charset = Charset(hreq.ctype)
        /\ last.err # "TypeError: encode"

\* The handler has ended a call in which the application returned
\* without having called start_response().
NotStarted == server_side /\ wsgi.message # 0 /\ ~wsgi.called

\* C27: a call in which the application returned without having called
\* start_response() has ended with the HttpError, and no block of a
\* response to that request is or was written.
C27_NoStartResponse ==
    NotStarted =>
        /\ wsgi.pc = "raised"
        /\ wsgi.raised = "HttpError: no start_response"
        /\ ~wsgi.headers_sent
        /\ wire = <<>>
        /\ \A i \in 1..Len(order) : order[i] # wsgi.message

\* The second request of a connection is one whose application did not
\* call start_response(), after a response to the first was written.
C27_Witness ==
    NotStarted /\ wsgi.message = 2 /\ order # <<>> /\ wsgi.pc = "raised"

\* C28: in the chunked body of a server response or of a client request,
\* the only block whose bytes begin as a chunk of size 0 is the terminator
\* written at the end of the message: no write() of body data, empty or
\* not, bytes or text, produces one.
C28_ZeroChunkIsTerminator ==
    \A i \in 1..Len(wire) : LastChunk(wire[i]) => wire[i].kind = "end"

\* C29: the trailer block that ends a chunked response carries trailers
\* exactly when the application supplied trailers in the call that
\* produced the response.
C29_OwnTrailers ==
    \A i \in 1..Len(wire) :
        (server_side /\ wire[i].kind = "end") => wire[i].trailers = wsgi.supplied

\* The positions in wire of the header blocks.
HeaderBlocks == OfKinds(wire, {"header"})

\* C30: while the handler writes a response and when it has ended one,
\* the header block is not written twice and comes before every body
\* block and the terminator; a response that has ended has exactly one.
C30_HeaderOnceAndFirst ==
    server_side =>
        /\ Cardinality(HeaderBlocks) <= 1
        /\ wire # <<>> => wire[1].kind = "header"
        /\ wsgi.headers_sent <=> HeaderBlocks # {}
        /\ ResponseEnded => Cardinality(HeaderBlocks) = 1

\* A response has ended whose application wrote only empty data.
C30_Witness ==
    /\ server_side /\ ResponseEnded
    /\ wsgi.nchunks = MaxChunks /\ wsgi.ndata = 0
    /\ OfKinds(wire, {"raw", "chunk"}) = {}
    /\ Cardinality(HeaderBlocks) = 1

\* request() is called while the error slot is set or there is no
\* transport.
Refused == nreq' = nreq + 1 /\ (error # "None" \/ transport = "None")

\* C31: a request() call made while the error slot is set or while there
\* is no transport raises the stored error, or 'not connected' when no
\* error is stored, and leaves the outstanding-request log, the blocks
\* written, the queue, the error slot and the transport as they were.
C31_RefusedRequestFrame ==
    [][Refused =>
          /\ last' = Outcome("request", "raise", 0,
                             IF error # "None" THEN error ELSE "NotConnected")
          /\ requests' = requests
          /\ written' = written
          /\ UNCHANGED <<queue, error, transport, tclosed, response>>]_vars

\* request() has raised 'not connected' after the connection was lost with
\* a request outstanding.
C31_Witness ==
    /\ last.op = "request" /\ last.kind = "raise"
    /\ last.err = "NotConnected" /\ lost /\ requests # <<>>

\* The number of requests on the wire whose response headers have not
\* been received: the requests written, less the responses that answered
\* one of them.
Unanswered ==
    Len(sent) - Cardinality({k \in 1..Len(told) : told[k].answers})

\* getresponse() is called on a connected client with an empty
\* outstanding-request log and an empty queue.
CalledIdle ==
    /\ ~waiting /\ error = "None" /\ transport = "set"
    /\ requests = <<>> /\ queue = <<>>
    /\ last' # last /\ last'.op = "getresponse"

\* C32: getresponse() called on a connected client with an empty
\* outstanding-request log and an empty queue raises 'there are no
\* outstanding requests' and does not wait; and whenever getresponse()
\* waits on the empty queue, some request is on the wire whose response
\* headers have not been received.
C32_WaitsForARequest ==
    /\ []((waiting /\ queue = <<>>) => Unanswered > 0)
    /\ [][CalledIdle =>
             (last' = Outcome("getresponse", "raise", 0, "NoOutstanding")
                 /\ ~waiting')]_vars

====
